---- MODULE Spec2Model ----
(***************************************************************************)
(* The mutation pipeline of openIMIS core:                                 *)
(*   - OpenIMISMutation.mutate_and_get_payload (core/schema.py), the       *)
(*     Coordinator that logs a mutation, fans it out to the validation     *)
(*     signals, and runs or enqueues it;                                   *)
(*   - openimis_mutation_async (core/tasks.py), the Task Executor run by   *)
(*     a worker.                                                           *)
(* The MutationLog model (core/models.py) is not among the sources; its    *)
(* create / mark_as_successful / mark_as_failed are modelled from the      *)
(* store contract of the specification.                                    *)
(***************************************************************************)
EXTENDS Naturals, Sequences, FiniteSets, TLC

VARIABLES
    async_mutations,  \* core.async_mutations, the process-wide execution mode
    store,            \* MutationLog table: record id -> record
    queue,            \* task messages waiting for a worker
    co,               \* the request thread inside mutate_and_get_payload
    wk,               \* the worker inside openimis_mutation_async
    nsub,             \* number of submissions started so far
    qry,              \* a mutation-log query: its inputs and its answers
    retries,          \* number of externally triggered re-deliveries so far
    handle,           \* what each submission returned to its caller
    hist              \* per submission: what was notified, enqueued, executed,
                      \* and what the worker framework saw of its last run

vars == <<async_mutations, store, queue, co, wk, nsub, retries, handle, hist,
          qry>>

----------------------------------------------------------------------------
(* Bounds *)

MaxSubmits == 2
MaxRetries == 1

Ids == 1..MaxSubmits

----------------------------------------------------------------------------
(* Values *)

NONE == "<None>"

RECEIVED == "RECEIVED"
PENDING_EXECUTION == "PENDING_EXECUTION"
SUCCESS == "SUCCESS"
FAILED == "FAILED"

Statuses == {RECEIVED, PENDING_EXECUTION, SUCCESS, FAILED}

\* Python truthiness of an optional string: None and "" are falsy.
Truthy(x) == x # NONE /\ x # ""

\* The mutation classes that can be submitted: _mutation_module/_mutation_class.
MutationClasses ==
    { [module |-> "billing", class |-> "ChargeCard"],
      [module |-> "billing", class |-> "X"],
      [module |-> "unknownmodule", class |-> "X"] }

\* The keys of signal_mutation_module: the modules loaded when core.schema is imported.
SignalModules == {"billing"}

\* The classes getattr(__import__(f"{module}.schema").schema, class_name) finds.
SchemaClasses == { <<"billing", "ChargeCard">> }

\* Mutation inputs (**data): the n-th submission carries its own amount, so
\* that no two records hold the same payload.
Payload(n) == [amount |-> 100 * n]

Payloads == { Payload(n) : n \in Ids }

\* Exceptions, and str(exc).
NoExc == [type |-> "-", msg |-> ""]
Exc(type, msg) == [type |-> type, msg |-> msg]

Str(exc) ==
    IF exc.type = "KeyError" THEN "'" \o exc.msg \o "'" ELSE exc.msg

\* What a handler's async_mutate can do: return None, return an error
\* message, or raise (an exception with a message, or one without, such as a
\* failed assert).
Behaviours ==
    { [kind |-> "return", value |-> NONE],
      [kind |-> "return", value |-> "insufficient funds"],
      [kind |-> "raise", value |-> "network timeout"],
      [kind |-> "raise", value |-> ""] }

NotRun == [kind |-> "notrun", value |-> NONE]

ReturnsNone(beh) == beh.kind = "return" /\ beh.value = NONE

----------------------------------------------------------------------------
(* json.dumps / json.loads *)

JsonDumpsStr(s) == "\"" \o s \o "\""

RECURSIVE JoinQuoted(_)
JoinQuoted(xs) ==
    IF xs = <<>> THEN ""
    ELSE IF Len(xs) = 1 THEN JsonDumpsStr(xs[1])
    ELSE JsonDumpsStr(xs[1]) \o ", " \o JoinQuoted(Tail(xs))

JsonDumpsList(xs) == "[" \o JoinQuoted(xs) \o "]"

JsonDumpsData(d) == "{\"amount\": " \o ToString(d.amount) \o "}"

JsonLoadsData(s) == CHOOSE d \in Payloads : JsonDumpsData(d) = s

----------------------------------------------------------------------------
(* MutationRecord store *)

NewRecord(data) ==
    [status |-> RECEIVED, error |-> NONE, json_content |-> JsonDumpsData(data)]

Create(st, id, data) ==
    [i \in DOMAIN st \cup {id} |-> IF i = id THEN NewRecord(data) ELSE st[i]]

MarkAsSuccessful(st, id) ==
    IF id \in DOMAIN st
    THEN [st EXCEPT ![id].status = SUCCESS, ![id].error = NONE]
    ELSE st

MarkAsFailed(st, id, detail) ==
    IF id \in DOMAIN st
    THEN [st EXCEPT ![id].status = FAILED, ![id].error = detail]
    ELSE st

----------------------------------------------------------------------------
(* Signal dispatcher *)

GlobalSubs == <<"g1">>

ModuleSubs(m) == IF m = "billing" THEN <<"b1">> ELSE <<>>

AllSubs == {"g1", "b1"}

SubKinds == {"ok", "errors", "raise"}

\* The error list a subscriber returns when it rejects the mutation.
ErrorsOf(s) == IF s = "g1" THEN <<"insufficient funds">> ELSE <<"card expired">>

\* Signal.send: call the receivers in registration order and collect
\* (receiver, response); a receiver that raises ends the loop and the
\* exception propagates.
RECURSIVE Send(_, _)
Send(subs, out) ==
    IF subs = <<>> THEN [results |-> <<>>, exc |-> NoExc, invoked |-> <<>>]
    ELSE LET s == Head(subs) IN
         IF out[s] = "raise"
         THEN [results |-> <<>>, exc |-> Exc("Exception", "subscriber crashed"),
               invoked |-> <<s>>]
         ELSE LET rest == Send(Tail(subs), out)
                  resp == IF out[s] = "errors" THEN ErrorsOf(s) ELSE <<>>
              IN [results |-> <<(<<s, resp>>)>> \o rest.results,
                  exc |-> rest.exc,
                  invoked |-> <<s>> \o rest.invoked]

\* Every error the subscribers in `invoked` handed back under `out`.
RECURSIVE Returned(_, _)
Returned(invoked, out) ==
    IF invoked = <<>> THEN <<>>
    ELSE (IF out[Head(invoked)] = "errors" THEN ErrorsOf(Head(invoked)) ELSE <<>>)
         \o Returned(Tail(invoked), out)

FlattenFirstOnly(results) ==
    IF results = <<>> THEN <<>> ELSE Head(results)[2]

\* [err for r in results for err in r[1]]
RECURSIVE Flatten(_)
Flatten(results) ==
    IF results = <<>> THEN <<>>
    ELSE Head(results)[2] \o Flatten(Tail(results))

\* A fan-out that skips the module scope once the global scope has
\* returned an error.
FanOutShortCircuit(module, out) ==
    LET g == Send(GlobalSubs, out) IN
    IF g.exc # NoExc \/ Flatten(g.results) # <<>> THEN g
    ELSE IF module \notin SignalModules
         THEN [results |-> g.results, exc |-> Exc("KeyError", module),
               invoked |-> g.invoked]
         ELSE LET m == Send(ModuleSubs(module), out) IN
              [results |-> g.results \o m.results, exc |-> m.exc,
               invoked |-> g.invoked \o m.invoked]

\* signal_mutation.send(...) followed by
\* signal_mutation_module[cls._mutation_module].send(...)
FanOut(module, out) ==
    LET g == Send(GlobalSubs, out) IN
    IF g.exc # NoExc THEN g
    ELSE IF module \notin SignalModules
         THEN [results |-> g.results, exc |-> Exc("KeyError", module),
               invoked |-> g.invoked]
         ELSE LET m == Send(ModuleSubs(module), out) IN
              [results |-> g.results \o m.results, exc |-> m.exc,
               invoked |-> g.invoked \o m.invoked]

----------------------------------------------------------------------------
(* State *)

CoIdle == [pc |-> "idle", id |-> 0, mc |-> [module |-> "-", class |-> "-"],
           data |-> [amount |-> 0], error_messages |-> NONE, exc |-> NoExc]

NoMsg == [mutation_id |-> 0, module |-> "-", class_name |-> "-"]

WkIdle == [pc |-> "idle", msg |-> NoMsg, mutation |-> 0,
           result |-> NONE, exc |-> NoExc]

NoHandle == [kind |-> "none", id |-> 0]
Handle(id) == [kind |-> "handle", id |-> id]
Fault == [kind |-> "fault", id |-> 0]

NoClass == [module |-> "-", class |-> "-"]

\* History of one submission:
\*   mc        the mutation class submitted
\*   notified  the subscribers called, in call order
\*   errors    every error the called subscribers returned
\*   fault     the exception the Coordinator caught, if any
\*   enqueued, inline, worker   how often a task was enqueued, the handler was
\*             called inline, the handler was called by the worker
\*   last      what the last handler call did; okrun: some call returned None
\*   comark    the status the Coordinator marked last; writer: who marked last
\*   done      finished worker runs; seen/raised: what the framework saw last
NoHist == [mc |-> NoClass, notified |-> <<>>, errors |-> <<>>, fault |-> NoExc,
           enqueued |-> 0, inline |-> 0, worker |-> 0, last |-> NotRun,
           okrun |-> FALSE, comark |-> "-", writer |-> "none",
           done |-> 0, seen |-> "-", raised |-> NoExc, arg |-> CoIdle.data,
           verdict |-> "-"]

(* Mutation-log query: MutationLogGQLType.get_queryset *)

\* request users: AnonymousUser, two ordinary users and a super-user
Anonymous == [id |-> NONE, is_anonymous |-> TRUE, is_superuser |-> FALSE]

User(name) == [id |-> name, is_anonymous |-> FALSE, is_superuser |-> FALSE]

SuperUser == [id |-> "admin", is_anonymous |-> FALSE, is_superuser |-> TRUE]

Principals == {Anonymous, User("u1"), User("u2"), SuperUser}

\* MutationLog.user of a record: user_id is None when the request had no user
Owners == {NONE} \cup {p.id : p \in Principals}

\* a queryset: record id -> user of the record
Tables == UNION {[S -> Owners] : S \in SUBSET Ids}

\* queryset.filter(user=user)
Filter(queryset, user) ==
    LET keep == {i \in DOMAIN queryset : queryset[i] = user.id}
    IN [i \in keep |-> queryset[i]]

\* A get_queryset that filters only for anonymous requests.
get_queryset_unfiltered(queryset, user) ==
    IF user.is_anonymous THEN <<>> ELSE queryset

\* if is_anonymous: queryset.none() elif is_superuser: queryset
\* else: queryset.filter(user=info.context.user)
get_queryset(queryset, user) ==
    IF user.is_anonymous
    THEN <<>>
    ELSE IF user.is_superuser
    THEN queryset
    ELSE Filter(queryset, user)

\* No mutation-log query is being answered.
NoQuery == [pc |-> "none", user |-> Anonymous, tableA |-> <<>>,
            tableB |-> <<>>, outA |-> <<>>, outB |-> <<>>]

Init ==
    /\ async_mutations \in BOOLEAN
    /\ store = <<>>
    /\ queue = {}
    /\ co = CoIdle
    /\ wk = WkIdle
    /\ nsub = 0
    /\ retries = 0
    /\ handle = [n \in Ids |-> NoHandle]
    /\ hist = [n \in Ids |-> NoHist]
    /\ qry = NoQuery

----------------------------------------------------------------------------
(* A mutation-log query on its own *)

\* One user asks for the mutation log of two stores.
InitQ ==
    /\ async_mutations = FALSE
    /\ store = <<>>
    /\ queue = {}
    /\ co = CoIdle
    /\ wk = WkIdle
    /\ nsub = 0
    /\ retries = 0
    /\ handle = [n \in Ids |-> NoHandle]
    /\ hist = [n \in Ids |-> NoHist]
    /\ \E u \in Principals, a \in Tables, b \in Tables :
          qry = [NoQuery EXCEPT !.pc = "asked", !.user = u,
                                !.tableA = a, !.tableB = b]

GetQueryset ==
    /\ qry.pc = "asked"
    /\ qry' = [qry EXCEPT !.pc = "answered",
                          !.outA = get_queryset(qry.tableA, qry.user),
                          !.outB = get_queryset(qry.tableB, qry.user)]
    /\ UNCHANGED <<async_mutations, store, queue, co, wk, nsub, retries,
                   handle, hist>>

NextQ == GetQueryset

SpecQ == InitQ /\ [][NextQ]_vars

----------------------------------------------------------------------------
(* Coordinator: OpenIMISMutation.mutate_and_get_payload *)

\* A create whose persistence fault is swallowed: the submission goes on
\* without a record.
CoCreateSilent(mc, data, ok) ==
    /\ co.pc = "idle"
    /\ nsub < MaxSubmits
    /\ nsub' = nsub + 1
    /\ store' = IF ok THEN Create(store, nsub + 1, data) ELSE store
    /\ co' = [CoIdle EXCEPT !.pc = "fanout", !.id = nsub + 1,
                            !.mc = mc, !.data = data]
    /\ hist' = [hist EXCEPT ![nsub + 1].mc = mc]
    /\ UNCHANGED <<qry, async_mutations, queue, wk, retries, handle>>

\* MutationLog.objects.create(...): the record exists, RECEIVED, before
\* anything else; a persistence fault propagates to the caller.
CoCreate(mc, data, ok) ==
    /\ co.pc = "idle"
    /\ nsub < MaxSubmits
    /\ nsub' = nsub + 1
    /\ IF ok
       THEN /\ store' = Create(store, nsub + 1, data)
            /\ co' = [CoIdle EXCEPT !.pc = "fanout", !.id = nsub + 1,
                                    !.mc = mc, !.data = data]
            /\ hist' = [hist EXCEPT ![nsub + 1].mc = mc]
            /\ UNCHANGED handle
       ELSE /\ handle' = [handle EXCEPT ![nsub + 1] = Fault]
            /\ UNCHANGED <<store, co, hist>>
    /\ UNCHANGED <<qry, async_mutations, queue, wk, retries>>

\* The two signal sends and the check of the aggregated errors.
CoFanOut(out) ==
    /\ co.pc = "fanout"
    /\ LET r == FanOut(co.mc.module, out)
           errors == Flatten(r.results)
           failed == r.exc = NoExc /\ errors # <<>>
       IN /\ hist' = [hist EXCEPT ![co.id].notified = r.invoked,
                                  ![co.id].errors = Returned(r.invoked, out),
                                  ![co.id].verdict =
                                      IF r.exc # NoExc THEN "fault"
                                      ELSE IF Returned(r.invoked, out) # <<>>
                                      THEN "rejected"
                                      ELSE "passed",
                                  ![co.id].writer =
                                      IF failed THEN "Coordinator" ELSE @,
                                  ![co.id].comark =
                                      IF failed THEN FAILED ELSE @]
          /\ IF r.exc # NoExc
             THEN /\ co' = [co EXCEPT !.pc = "except", !.exc = r.exc]
                  /\ UNCHANGED <<store, handle>>
             ELSE IF errors # <<>>
             THEN /\ store' = MarkAsFailed(store, co.id, JsonDumpsList(errors))
                  /\ handle' = [handle EXCEPT ![co.id] = Handle(co.id)]
                  /\ co' = CoIdle
             ELSE /\ co' = [co EXCEPT !.pc = "dispatch"]
                  /\ UNCHANGED <<store, handle>>
    /\ UNCHANGED <<qry, async_mutations, queue, wk, nsub, retries>>

\* A dispatch that in async mode enqueues the task and also runs the handler
\* inline.
CoDispatchBoth(beh) ==
    /\ co.pc = "dispatch"
    /\ queue' = IF async_mutations
                THEN queue \cup {[mutation_id |-> co.id,
                                  module |-> co.mc.module,
                                  class_name |-> co.mc.class]}
                ELSE queue
    /\ hist' = [hist EXCEPT ![co.id].enqueued =
                                IF async_mutations THEN @ + 1 ELSE @,
                            ![co.id].inline = @ + 1,
                            ![co.id].arg = co.data,
                            ![co.id].last = beh,
                            ![co.id].okrun = @ \/ ReturnsNone(beh)]
    /\ co' = IF beh.kind = "raise"
             THEN [co EXCEPT !.pc = "except",
                             !.exc = Exc("Exception", beh.value)]
             ELSE [co EXCEPT !.pc = "finalize",
                             !.error_messages = beh.value]
    /\ UNCHANGED <<qry, async_mutations, store, wk, nsub, retries, handle>>

\* if core.async_mutations: delay(...) else: cls.async_mutate(...)
CoDispatch(beh) ==
    /\ co.pc = "dispatch"
    /\ IF async_mutations
       THEN /\ queue' = queue \cup {[mutation_id |-> co.id,
                                     module |-> co.mc.module,
                                     class_name |-> co.mc.class]}
            /\ co' = [co EXCEPT !.pc = "finalize", !.error_messages = NONE]
            /\ hist' = [hist EXCEPT ![co.id].enqueued = @ + 1]
       ELSE /\ hist' = [hist EXCEPT ![co.id].inline = @ + 1,
                                    ![co.id].arg = co.data,
                                    ![co.id].last = beh,
                                    ![co.id].okrun = @ \/ ReturnsNone(beh)]
            /\ co' = IF beh.kind = "raise"
                     THEN [co EXCEPT !.pc = "except",
                                     !.exc = Exc("Exception", beh.value)]
                     ELSE [co EXCEPT !.pc = "finalize",
                                     !.error_messages = beh.value]
            /\ UNCHANGED queue
    /\ UNCHANGED <<qry, async_mutations, store, wk, nsub, retries, handle>>

\* A Coordinator that, with nothing to report, leaves the record pending
\* instead of marking it.
CoordinatorMarkPending(st, id, error_messages) ==
    IF ~Truthy(error_messages)
    THEN IF id \in DOMAIN st
         THEN [st EXCEPT ![id].status = PENDING_EXECUTION]
         ELSE st
    ELSE MarkAsFailed(st, id, JsonDumpsStr(error_messages))

\* if not error_messages: mark_as_successful() else: mark_as_failed(json.dumps(...))
CoordinatorMark(st, id, error_messages) ==
    IF ~Truthy(error_messages)
    THEN MarkAsSuccessful(st, id)
    ELSE MarkAsFailed(st, id, JsonDumpsStr(error_messages))

CoFinalize ==
    /\ co.pc = "finalize"
    /\ store' = CoordinatorMark(store, co.id, co.error_messages)
    /\ hist' = [hist EXCEPT ![co.id].writer = "Coordinator",
                            ![co.id].comark =
                                IF co.id \in DOMAIN store'
                                THEN store'[co.id].status ELSE @]
    /\ handle' = [handle EXCEPT ![co.id] = Handle(co.id)]
    /\ co' = CoIdle
    /\ UNCHANGED <<qry, async_mutations, queue, wk, nsub, retries>>

\* A handler that lets the fault go on to the caller after marking.
CoExceptReraise ==
    /\ co.pc = "except"
    /\ store' = MarkAsFailed(store, co.id, Str(co.exc))
    /\ hist' = [hist EXCEPT ![co.id].writer = "Coordinator",
                            ![co.id].comark = FAILED,
                            ![co.id].fault = co.exc]
    /\ handle' = [handle EXCEPT ![co.id] = Fault]
    /\ co' = CoIdle
    /\ UNCHANGED <<qry, async_mutations, queue, wk, nsub, retries>>

\* except Exception as exc: mark_as_failed(exc); the error column holds its text.
CoExcept ==
    /\ co.pc = "except"
    /\ store' = MarkAsFailed(store, co.id, Str(co.exc))
    /\ hist' = [hist EXCEPT ![co.id].writer = "Coordinator",
                            ![co.id].comark = FAILED,
                            ![co.id].fault = co.exc]
    /\ handle' = [handle EXCEPT ![co.id] = Handle(co.id)]
    /\ co' = CoIdle
    /\ UNCHANGED <<qry, async_mutations, queue, wk, nsub, retries>>

----------------------------------------------------------------------------
(* Task Executor: openimis_mutation_async *)

\* A lookup that hands over the content of the oldest record of the store.
LoadedDataOldest(st, id) ==
    LET first == CHOOSE i \in DOMAIN st : \A j \in DOMAIN st : i <= j
    IN JsonLoadsData(st[first].json_content)

\* json.loads(mutation.json_content) of the record fetched by id
LoadedData(st, id) == JsonLoadsData(st[id].json_content)

Resolvable(module, class_name) == <<module, class_name>> \in SchemaClasses

\* Load the record, resolve the class, call async_mutate.
WkRun(msg, beh) ==
    /\ wk.pc = "idle"
    /\ msg \in queue
    /\ queue' = queue \ {msg}
    /\ IF msg.mutation_id \notin DOMAIN store
       THEN /\ wk' = [WkIdle EXCEPT !.pc = "except",
                                    !.msg = msg,
                                    !.exc = Exc("DoesNotExist",
                                       "MutationLog matching query does not exist.")]
            /\ UNCHANGED hist
       ELSE IF ~Resolvable(msg.module, msg.class_name)
       THEN /\ wk' = [WkIdle EXCEPT !.pc = "except",
                                    !.msg = msg,
                                    !.mutation = msg.mutation_id,
                                    !.exc = Exc("AttributeError",
                                       "module has no attribute " \o msg.class_name)]
            /\ UNCHANGED hist
       ELSE /\ hist' = [hist EXCEPT ![msg.mutation_id].worker = @ + 1,
                                    ![msg.mutation_id].arg =
                                        LoadedData(store, msg.mutation_id),
                                    ![msg.mutation_id].last = beh,
                                    ![msg.mutation_id].okrun =
                                        @ \/ ReturnsNone(beh)]
            /\ wk' = IF beh.kind = "raise"
                     THEN [WkIdle EXCEPT !.pc = "except",
                                         !.msg = msg,
                                         !.mutation = msg.mutation_id,
                                         !.exc = Exc("Exception", beh.value)]
                     ELSE [WkIdle EXCEPT !.pc = "mark",
                                         !.msg = msg,
                                         !.mutation = msg.mutation_id,
                                         !.result = beh.value]
    /\ UNCHANGED <<qry, async_mutations, store, co, nsub, retries, handle>>

\* An executor that leaves a record alone once it is SUCCESS or FAILED.
ExecutorMarkKeepTerminal(st, id, result) ==
    IF id \in DOMAIN st /\ st[id].status \in {SUCCESS, FAILED}
    THEN st
    ELSE IF Truthy(result)
         THEN MarkAsFailed(st, id, result)
         ELSE MarkAsSuccessful(st, id)

\* if result: mark_as_failed(result) else: mark_as_successful()
ExecutorMark(st, id, result) ==
    IF Truthy(result)
    THEN MarkAsFailed(st, id, result)
    ELSE MarkAsSuccessful(st, id)

\* A marking step that, after marking an error result FAILED, raises it to
\* the worker framework.
WkMarkRaiseOnError ==
    /\ wk.pc = "mark"
    /\ store' = ExecutorMark(store, wk.mutation, wk.result)
    /\ IF Truthy(wk.result)
       THEN /\ hist' = [hist EXCEPT ![wk.mutation].writer = "TaskExecutor"]
            /\ wk' = [wk EXCEPT !.pc = "raise",
                                !.exc = Exc("Exception", wk.result)]
       ELSE /\ hist' = [hist EXCEPT ![wk.mutation].writer = "TaskExecutor",
                                    ![wk.mutation].done = @ + 1,
                                    ![wk.mutation].seen = "OK",
                                    ![wk.mutation].raised = NoExc]
            /\ wk' = WkIdle
    /\ UNCHANGED <<qry, async_mutations, queue, co, nsub, retries, handle>>

WkMark ==
    /\ wk.pc = "mark"
    /\ store' = ExecutorMark(store, wk.mutation, wk.result)
    /\ hist' = [hist EXCEPT ![wk.mutation].writer = "TaskExecutor",
                            ![wk.mutation].done = @ + 1,
                            ![wk.mutation].seen = "OK",
                            ![wk.mutation].raised = NoExc]
    /\ wk' = WkIdle
    /\ UNCHANGED <<qry, async_mutations, queue, co, nsub, retries, handle>>

\* An except branch that writes a FAILED record for the id of the message
\* whether or not the record was found.
WkExceptUpsert ==
    /\ wk.pc = "except"
    /\ LET id == wk.msg.mutation_id
           st == IF id \in DOMAIN store
                 THEN store
                 ELSE Create(store, id, Payload(id))
       IN /\ store' = MarkAsFailed(st, id, Str(wk.exc))
          /\ hist' = [hist EXCEPT ![id].writer = "TaskExecutor"]
    /\ wk' = [wk EXCEPT !.pc = "raise"]
    /\ UNCHANGED <<qry, async_mutations, queue, co, nsub, retries, handle>>

\* except Exception as exc: if mutation: mutation.mark_as_failed(str(exc))
WkExcept ==
    /\ wk.pc = "except"
    /\ IF wk.mutation # 0
       THEN /\ store' = MarkAsFailed(store, wk.mutation, Str(wk.exc))
            /\ hist' = [hist EXCEPT ![wk.mutation].writer = "TaskExecutor"]
       ELSE UNCHANGED <<store, hist>>
    /\ wk' = [wk EXCEPT !.pc = "raise"]
    /\ UNCHANGED <<qry, async_mutations, queue, co, nsub, retries, handle>>

\* raise exc: the fault reaches the worker framework.
WkRaise ==
    /\ wk.pc = "raise"
    /\ hist' = [hist EXCEPT ![wk.msg.mutation_id].done = @ + 1,
                            ![wk.msg.mutation_id].seen = "raised",
                            ![wk.msg.mutation_id].raised = wk.exc]
    /\ wk' = WkIdle
    /\ UNCHANGED <<qry, async_mutations, store, queue, co, nsub, retries, handle>>

\* The worker framework runs a finished task again (external retry policy):
\* the same message is delivered once more.
Redeliver(id) ==
    /\ retries < MaxRetries
    /\ hist[id].done > 0
    /\ wk.pc = "idle"
    /\ \A m \in queue : m.mutation_id # id
    /\ queue' = queue \cup {[mutation_id |-> id,
                             module |-> hist[id].mc.module,
                             class_name |-> hist[id].mc.class]}
    /\ retries' = retries + 1
    /\ UNCHANGED <<qry, async_mutations, store, co, wk, nsub, handle, hist>>

\* The worker is handed a task whose record id is not in the store: the id
\* of a submission whose record was never persisted.
StrayDeliver(id) ==
    /\ retries < MaxRetries
    /\ id <= nsub
    /\ id \notin DOMAIN store
    /\ wk.pc = "idle"
    /\ \A m \in queue : m.mutation_id # id
    /\ queue' = queue \cup {[mutation_id |-> id,
                             module |-> "billing",
                             class_name |-> "ChargeCard"]}
    /\ retries' = retries + 1
    /\ UNCHANGED <<qry, async_mutations, store, co, wk, nsub, handle, hist>>

----------------------------------------------------------------------------

Next ==
    \/ \E mc \in MutationClasses, ok \in BOOLEAN :
          CoCreate(mc, Payload(nsub + 1), ok)
    \/ \E out \in [AllSubs -> SubKinds] : CoFanOut(out)
    \/ \E beh \in Behaviours : CoDispatch(beh)
    \/ CoFinalize
    \/ CoExcept
    \/ \E msg \in queue, beh \in Behaviours : WkRun(msg, beh)
    \/ WkMark
    \/ WkExcept
    \/ WkRaise
    \/ \E id \in Ids : Redeliver(id)
    \/ \E id \in Ids : StrayDeliver(id)

Spec == Init /\ [][Next]_vars

\* The request thread runs mutate_and_get_payload to its end, and the worker
\* runs every task it is given to its end.
CoStep ==
    \/ \E out \in [AllSubs -> SubKinds] : CoFanOut(out)
    \/ \E beh \in Behaviours : CoDispatch(beh)
    \/ CoFinalize
    \/ CoExcept

WkStep ==
    \/ \E msg \in queue, beh \in Behaviours : WkRun(msg, beh)
    \/ WkMark
    \/ WkExcept
    \/ WkRaise

FairSpec == Spec /\ WF_vars(CoStep) /\ WF_vars(WkStep)

----------------------------------------------------------------------------
(* Properties *)

Terminal == {SUCCESS, FAILED}

Executions(n) == hist[n].inline + hist[n].worker

\* The record a synchronous submission leaves when the handler behaves as beh.
SyncOutcome(beh) ==
    LET st == Create(<<>>, 1, Payload(1))
        fin == IF beh.kind = "raise"
               THEN MarkAsFailed(st, 1, Str(Exc("Exception", beh.value)))
               ELSE CoordinatorMark(st, 1, beh.value)
    IN [status |-> fin[1].status, error |-> fin[1].error]

\* C1: a record whose status is SUCCESS has had its handler's execute called
\* for it (inline or by the worker) and that call returned None; it is never
\* SUCCESS while the handler has not run, returned an error or raised.
C1_SuccessOnlyAfterHandlerReturnedNone ==
    \A id \in DOMAIN store :
        store[id].status = SUCCESS => Executions(id) > 0 /\ hist[id].okrun

\* C2: in async mode, a submission whose fan-out returned no errors is
\* enqueued and the Coordinator never marks its record SUCCESS or FAILED;
\* only the Task Executor makes it terminal.
C2_CoordinatorNeverMarksEnqueued ==
    \A id \in DOMAIN store :
        (async_mutations /\ hist[id].enqueued > 0) =>
            /\ hist[id].comark = "-"
            /\ (store[id].status \in Terminal => hist[id].writer = "TaskExecutor")

\* C3 as stated: whenever a subscriber returned a non-empty error list, the
\* handler is never called, no task is enqueued, and the record ends FAILED
\* with the aggregated errors as error_detail.
C3_ErrorsAlwaysAggregated ==
    \A id \in DOMAIN store :
        hist[id].errors # <<>> =>
            /\ Executions(id) = 0 /\ hist[id].enqueued = 0
            /\ handle[id] = Handle(id) =>
                   /\ store[id].status = FAILED
                   /\ store[id].error = JsonDumpsList(hist[id].errors)

\* C3 amended: whenever a subscriber returned a non-empty error list, the
\* handler is never called and no task is enqueued, and the record ends
\* FAILED; its error_detail is the aggregated errors when the fan-out ran to
\* its end, and the text of the fault when a later subscriber (or the lookup
\* of the module scope) raised.
C3_ValidationShortCircuit ==
    \A id \in DOMAIN store :
        hist[id].errors # <<>> =>
            /\ Executions(id) = 0 /\ hist[id].enqueued = 0
            /\ handle[id] = Handle(id) =>
                   /\ store[id].status = FAILED
                   /\ store[id].error =
                          IF hist[id].fault = NoExc
                          THEN JsonDumpsList(hist[id].errors)
                          ELSE Str(hist[id].fault)

\* A submission rejected by both subscribers has returned, FAILED with both
\* errors, and nothing was executed or enqueued.
C3_Witness ==
    \E id \in DOMAIN store :
        /\ Len(hist[id].errors) = 2
        /\ hist[id].fault = NoExc
        /\ handle[id] = Handle(id)
        /\ store[id].status = FAILED
        /\ Executions(id) = 0

\* C4: error_detail is non-empty if and only if status = FAILED, for every
\* record in every reachable state.
C4_ErrorDetailIffFailed ==
    \A id \in DOMAIN store :
        Truthy(store[id].error) <=> store[id].status = FAILED

\* C5: a record has one owner; on the async path the Coordinator does not
\* write after the task is enqueued, so once the worker has finished and
\* the submission has returned, the record is what the Task Executor wrote.
C5_ExecutorWriteIsFinal ==
    \A id \in DOMAIN store :
        (/\ hist[id].enqueued > 0
         /\ hist[id].done > 0
         /\ handle[id] = Handle(id)
         /\ wk.msg.mutation_id # id) =>
            hist[id].writer = "TaskExecutor"

\* C6: for every handler behaviour, the record after the async path
\* (submit, then one worker run) has the status and error_detail the sync
\* path leaves for the same behaviour.
C6_AsyncEqualsSync ==
    \A id \in DOMAIN store :
        (/\ async_mutations
         /\ handle[id] = Handle(id)
         /\ hist[id].worker = 1
         /\ hist[id].done = 1
         /\ hist[id].writer = "TaskExecutor"
         /\ wk.msg.mutation_id # id) =>
            [status |-> store[id].status, error |-> store[id].error]
                = SyncOutcome(hist[id].last)

\* C7: once the record exists no fault escapes submit: every finished
\* submission that created a record returned a handle with that record's
\* id, and when a subscriber or the inline handler raised, the record is
\* FAILED with the fault as error_detail.
C7_NoFaultEscapesSubmit ==
    \A n \in Ids :
        /\ (n \in DOMAIN store /\ co.id # n) => handle[n] = Handle(n)
        /\ handle[n] # NoHandle /\ n \in DOMAIN store =>
               /\ handle[n] = Handle(n)
               /\ hist[n].fault # NoExc =>
                      /\ store[n].status = FAILED
                      /\ store[n].error = Str(hist[n].fault)

\* A submission whose inline handler raised has returned its handle.
C7_Witness ==
    \E n \in DOMAIN store :
        /\ hist[n].inline = 1
        /\ hist[n].last.kind = "raise"
        /\ hist[n].fault # NoExc
        /\ handle[n] = Handle(n)
        /\ store[n].status = FAILED

\* C8: when the fault of a loaded record reaches the worker framework, the
\* record is already FAILED with the fault detail.
C8_FailedWhenFaultReachesFramework ==
    (wk.pc = "raise" /\ wk.mutation # 0 /\ wk.mutation \in DOMAIN store) =>
        /\ store[wk.mutation].status = FAILED
        /\ store[wk.mutation].error = Str(wk.exc)

\* C9: the record is created, RECEIVED, before any subscriber is notified,
\* any task enqueued or any handler executed; and when creation fails the
\* fault goes to the caller and none of these steps runs.
C9_PersistBeforeProcess ==
    \A n \in Ids :
        LET started == \/ hist[n].notified # <<>>
                       \/ hist[n].enqueued > 0
                       \/ Executions(n) > 0
                       \/ (co.id = n /\ co.pc # "fanout")
        IN /\ started => n \in DOMAIN store
           /\ (co.id = n /\ co.pc = "fanout") =>
                  /\ n \in DOMAIN store
                  /\ store[n].status = RECEIVED
                  /\ ~started
           /\ handle[n] = Fault => n \notin DOMAIN store /\ ~started /\ co.id # n

\* A persistence fault went to the caller while another submission is past
\* its fan-out.
C9_Witness ==
    /\ \E n \in Ids : handle[n] = Fault
    /\ \E n \in DOMAIN store : hist[n].notified # <<>> /\ Executions(n) > 0

\* C10: the status is always one of the lifecycle values, and once it is
\* SUCCESS or FAILED no step puts it back to RECEIVED or PENDING_EXECUTION.
C10_TerminalNeverReverts ==
    /\ [](\A id \in DOMAIN store : store[id].status \in Statuses)
    /\ [][\A id \in DOMAIN store :
             store[id].status \in Terminal =>
                 id \in DOMAIN store' /\ store'[id].status \in Terminal]_vars

\* A terminal record has been through a second worker run (a retry).
C10_Witness ==
    \E id \in DOMAIN store :
        /\ hist[id].done >= 2
        /\ store[id].status \in Terminal

\* The subscribers of both scopes of a mutation class, in registration order.
Subscribers(mc) == GlobalSubs \o ModuleSubs(mc.module)

IsPrefix(xs, ys) == Len(xs) <= Len(ys) /\ xs = SubSeq(ys, 1, Len(xs))

\* C11 as stated: in every submit every subscriber of the global scope and
\* then of the module scope is called, in registration order, and the
\* error_detail of a validation failure holds every error returned.
C11_EverySubscriberAlwaysCalled ==
    \A n \in DOMAIN store :
        handle[n] = Handle(n) =>
            /\ hist[n].notified = Subscribers(hist[n].mc)
            /\ hist[n].errors # <<>> =>
                   store[n].error = JsonDumpsList(hist[n].errors)

\* C11 amended: the subscribers are called in registration order, global
\* scope first, and a subscriber that returned errors does not stop the
\* fan-out; only a subscriber that raises ends it. When no subscriber
\* raised (and the module scope exists) every subscriber was called, and
\* the error_detail of a validation failure holds every error returned.
C11_FanOutCompleteness ==
    \A n \in DOMAIN store :
        /\ IsPrefix(hist[n].notified, Subscribers(hist[n].mc))
        /\ handle[n] = Handle(n) =>
               /\ hist[n].notified # <<>>
               /\ hist[n].fault = NoExc =>
                      /\ hist[n].notified = Subscribers(hist[n].mc)
                      /\ hist[n].errors # <<>> =>
                             /\ store[n].status = FAILED
                             /\ store[n].error = JsonDumpsList(hist[n].errors)

\* The global subscriber rejected the mutation and the module subscriber
\* was still called; the record carries the global subscriber's error.
C11_Witness ==
    \E n \in DOMAIN store :
        /\ handle[n] = Handle(n)
        /\ hist[n].notified = <<"g1", "b1">>
        /\ hist[n].errors = <<"insufficient funds">>
        /\ store[n].error = "[\"insufficient funds\"]"

\* C12: a worker run on a record that is already SUCCESS or FAILED (a
\* retry) marks it again without raising because of the earlier mark: the
\* record becomes the outcome of this run, the only fault that goes on to
\* the framework is the run's own, and a run that fails the same way on a
\* FAILED record leaves the record as it was.
C12_IdempotentRemarking ==
    [][\A id \in DOMAIN store :
          (/\ wk.mutation = id
           /\ store[id].status \in Terminal
           /\ wk.pc \in {"mark", "except"}
           /\ wk'.pc # wk.pc) =>
              LET failed == wk.pc = "except" \/ Truthy(wk.result)
                  detail == IF wk.pc = "except" THEN Str(wk.exc)
                            ELSE IF Truthy(wk.result) THEN wk.result ELSE NONE
              IN /\ id \in DOMAIN store'
                 /\ store'[id].status = (IF failed THEN FAILED ELSE SUCCESS)
                 /\ store'[id].error = detail
                 /\ store'[id].json_content = store[id].json_content
                 /\ wk.pc = "mark" => wk'.pc = "idle" /\ hist'[id].seen = "OK"
                 /\ wk.pc = "except" => wk'.pc = "raise" /\ wk'.exc = wk.exc
                 /\ (store[id].status = FAILED /\ store[id].error = detail) =>
                        store'[id] = store[id]]_vars

\* A record went through a retry and is FAILED by the Task Executor's last
\* mark, with the detail of the handler's fault.
C12_Witness ==
    \E id \in DOMAIN store :
        /\ retries > 0
        /\ hist[id].worker >= 2
        /\ hist[id].done >= 2
        /\ hist[id].writer = "TaskExecutor"
        /\ hist[id].last = [kind |-> "raise", value |-> "network timeout"]
        /\ store[id].status = FAILED
        /\ store[id].error = "network timeout"

\* The names of submission n do not resolve: its module has no signal
\* scope, or its class is not found in the module's schema.
Unresolved(n) ==
    \/ hist[n].mc.module \notin SignalModules
    \/ ~Resolvable(hist[n].mc.module, hist[n].mc.class)

\* Submission n has returned and no task of it is waiting or running.
Settled(n) ==
    /\ handle[n] = Handle(n)
    /\ hist[n].enqueued > 0 => hist[n].done > 0
    /\ wk.msg.mutation_id # n
    /\ \A m \in queue : m.mutation_id # n

\* C13: a submission naming a module or handler that cannot be resolved
\* ends FAILED with a descriptive error_detail and no exception escapes
\* submit, in sync mode and (once the Task Executor has run) in async mode.
C13_ResolutionFailureEndsFailed ==
    \A n \in DOMAIN store :
        /\ handle[n] # Fault
        /\ (Unresolved(n) /\ Settled(n)) =>
               /\ store[n].status = FAILED
               /\ Truthy(store[n].error)

\* The record of n is what the Task Executor marked for the handler's last
\* outcome (FAILED too when the class could not be resolved).
Reflects(n) ==
    IF n \in DOMAIN store
    THEN /\ hist[n].writer = "TaskExecutor"
         /\ store[n].status =
                (IF ReturnsNone(hist[n].last) THEN SUCCESS ELSE FAILED)
    ELSE FALSE

Processed(n) == IF n \in DOMAIN store THEN store[n].status \in Terminal ELSE FALSE

\* C14: every persisted record is processed to a terminal status: a
\* submission that returned in sync mode left it SUCCESS or FAILED, no
\* record stays RECEIVED forever, and in async mode, the worker running every
\* enqueued task, the record reaches the status of the handler's outcome.
C14_EventuallyTerminal ==
    /\ [](\A n \in DOMAIN store :
             (~async_mutations /\ handle[n] = Handle(n)) =>
                 store[n].status \in Terminal)
    /\ \A n \in Ids :
          /\ (n \in DOMAIN store) ~>
                 (Processed(n) /\ handle[n] = Handle(n))
          /\ (hist[n].enqueued > 0) ~> Reflects(n)

\* C15: a Task Executor run for a record id that is not in the store raises
\* the lookup fault to the worker framework, resolves and executes no
\* handler, creates no record and modifies no existing record.
C15_MissingRecordOnlyRaises ==
    /\ [](\A id \in Ids \ DOMAIN store :
             hist[id].worker = 0 /\ hist[id].inline = 0)
    /\ [][\A id \in Ids \ DOMAIN store :
             /\ (wk'.msg.mutation_id = id /\ wk' # wk) =>
                    /\ store' = store
                    /\ wk'.pc \in {"except", "raise"}
                    /\ wk'.mutation = 0
                    /\ wk'.result = NONE
                    /\ wk'.exc.type = "DoesNotExist"
                    /\ hist'[id].worker = 0
             /\ (wk.msg.mutation_id = id /\ wk'.pc = "idle") =>
                    /\ wk.pc = "raise"
                    /\ store' = store
                    /\ hist'[id].done = hist[id].done + 1
                    /\ hist'[id].seen = "raised"
                    /\ hist'[id].raised.type = "DoesNotExist"]_vars

\* A task for the missing record 1 ended in the lookup fault while record 2
\* exists.
C15_Witness ==
    /\ 1 \notin DOMAIN store
    /\ 2 \in DOMAIN store
    /\ hist[1].done > 0
    /\ hist[1].raised.type = "DoesNotExist"
    /\ hist[1].worker = 0

Dispatched(n) == ~(co.id = n /\ co.pc \in {"fanout", "dispatch"})

\* C17: a submission that passed validation does exactly one of the two: in
\* async mode the Coordinator enqueues exactly one task for the record and
\* never runs the handler inline; in sync mode it runs the handler inline
\* exactly once and enqueues no task. A submission that failed validation
\* does neither.
C17_ExactlyOneExecutionMode ==
    \A n \in DOMAIN store :
        LET v == hist[n].verdict
            e == hist[n].enqueued
            i == hist[n].inline
        IN /\ v # "passed" => (e = 0 /\ i = 0)
           /\ async_mutations => i = 0
           /\ ~async_mutations =>
                  /\ e = 0
                  /\ \A m \in queue : m.mutation_id # n
           /\ (v = "passed" /\ Dispatched(n)) =>
                  IF async_mutations THEN e = 1 ELSE i = 1
           /\ e + i <= 1

\* In async mode record 1 was rejected by a subscriber and nothing was
\* enqueued or run for it; record 2 passed and has its one task in the queue.
C17_Witness ==
    /\ async_mutations
    /\ DOMAIN store = {1, 2}
    /\ hist[1].verdict = "rejected"
    /\ hist[1].enqueued = 0
    /\ hist[1].worker = 0
    /\ hist[2].verdict = "passed"
    /\ hist[2].enqueued = 1
    /\ \E m \in queue : m.mutation_id = 2
    /\ handle[2] = Handle(2)

\* The records of a queryset that were submitted by the user.
Own(queryset, user) ==
    {<<i, queryset[i]>> : i \in {j \in DOMAIN queryset : queryset[j] = user.id}}

Rows(queryset) == {<<i, queryset[i]>> : i \in DOMAIN queryset}

\* C18: the mutation-log query returns no record to an anonymous user, all
\* records to a super-user and exactly the user's own records otherwise, so
\* two stores that agree on a non-super-user's own records give that user
\* the same answer whatever the other users submitted.
C18_MutationLogVisibility ==
    qry.pc = "answered" =>
        LET u == qry.user
        IN /\ u.is_anonymous => (qry.outA = <<>> /\ qry.outB = <<>>)
           /\ (~u.is_anonymous /\ u.is_superuser) =>
                  (qry.outA = qry.tableA /\ qry.outB = qry.tableB)
           /\ (~u.is_anonymous /\ ~u.is_superuser) =>
                  /\ Rows(qry.outA) = Own(qry.tableA, u)
                  /\ Rows(qry.outB) = Own(qry.tableB, u)
           /\ (~u.is_superuser /\ Own(qry.tableA, u) = Own(qry.tableB, u)) =>
                  qry.outA = qry.outB

\* u1 owns record 1 in both stores, record 2 belongs to u2 in one store and
\* to the super-user in the other, and u1 got record 1 alone from both.
C18_Witness ==
    /\ qry.pc = "answered"
    /\ qry.user = User("u1")
    /\ qry.tableA = <<"u1", "u2">>
    /\ qry.tableB = <<"u1", "admin">>
    /\ qry.outA = <<"u1">>
    /\ qry.outB = qry.outA

\* No worker run for record n is in progress.
NotRunning(n) == wk.msg.mutation_id # n

\* C19: in the Task Executor only thrown faults reach the worker framework.
\* When the handler returns an error detail the record is marked FAILED with
\* that detail and the task returns normally; when it returns none the
\* record is marked SUCCESS and the task returns normally; a finished task
\* has raised exactly when its run threw.
C19_OnlyThrownFaultsReachFramework ==
    /\ [](\A n \in DOMAIN store :
             /\ (hist[n].done > 0 /\ NotRunning(n)) =>
                    /\ hist[n].seen = "raised" <=> hist[n].last.kind # "return"
                    /\ hist[n].seen = "OK" <=> hist[n].raised = NoExc
                    /\ hist[n].last.kind = "raise" =>
                           hist[n].raised = Exc("Exception", hist[n].last.value)
             /\ (wk.mutation = n /\ wk.pc = "mark") =>
                    /\ hist[n].last.kind = "return"
                    /\ wk.result = hist[n].last.value
                    /\ wk.exc = NoExc)
    /\ [][\A n \in DOMAIN store :
             (wk.mutation = n /\ wk.pc = "mark" /\ wk' # wk) =>
                 /\ wk' = WkIdle
                 /\ queue' = queue
                 /\ hist'[n].done = hist[n].done + 1
                 /\ hist'[n].seen = "OK"
                 /\ hist'[n].raised = NoExc
                 /\ n \in DOMAIN store'
                 /\ IF wk.result = NONE
                    THEN store'[n].status = SUCCESS
                    ELSE /\ store'[n].status = FAILED
                         /\ store'[n].error = wk.result]_vars

\* The first run of a record's task returned an error detail: the record is
\* FAILED with it and the task returned OK, nothing was raised or retried.
C19_Witness ==
    \E n \in DOMAIN store :
        /\ hist[n].last = [kind |-> "return", value |-> "insufficient funds"]
        /\ hist[n].worker = 1
        /\ hist[n].done = 1
        /\ hist[n].seen = "OK"
        /\ retries = 0
        /\ hist[n].writer = "TaskExecutor"
        /\ store[n].status = FAILED
        /\ store[n].error = "insufficient funds"

====
